---- MODULE Spec2Model ----
(***************************************************************************)
(* protoc-gen-twirp-es: a protoc plugin that reads a CodeGeneratorRequest  *)
(* and writes one TypeScript / JavaScript client file.  The repository     *)
(* holds four revisions of package main; each is one program:              *)
(*     "main"  src/main.go             classes with constructors           *)
(*     "p000"  src/unnamed/part_000    interfaces + genField, typed        *)
(*     "p001"  src/unnamed/part_001    genField, first revision            *)
(*     "p002"  src/unnamed/part_002    genField with maps                  *)
(* Text is modelled as sequences of lines, a line as a sequence of string  *)
(* tokens.  A qualified type name ".a.b.C" is the sequence <<"a","b","C">> *)
(* of its dot-separated segments, "" is <<>>.                              *)
(***************************************************************************)
EXTENDS Naturals, Sequences, FiniteSets, TLC

VARIABLES
    variant,    \* which revision of package main runs
    req,        \* the CodeGeneratorRequest: req.ProtoFile, a sequence of files
    pos,        \* position of main's loops in Work(req)
    pc,         \* "run", "written", "panic" (index out of range), "nil"
                \* (nil pointer dereference) or "overflow"
    messages,   \* var messages: qualified name -> descriptor
    classes,    \* var classes []string (main.go)
    Methods,    \* var Methods []Method
    logged,     \* what the revision wrote with log.Println (stderr)
    out,        \* the CodeGeneratorResponse written to stdout, or NoFile
    rt,         \* one call of a generated function, at the artifact's run time
    call        \* the last application of a pure function (SpecFn only)

vars == <<variant, req, pos, pc, messages, classes, Methods, logged, out,
          rt, call>>

(***************************************************************************)
(* Bounds of the model.                                                    *)
(***************************************************************************)
\* Frames of genField the Go stack is taken to hold: a chain of calls longer
\* than the number of registered types repeats a type and never returns.
MaxStack == 8
\* Extra scalar fields that follow the probe field in message Probe.
MaxTail == 1
\* Chunks of the designated file name in front of its ".proto".
MaxSegs == 1

Variants == {"main", "p000", "p001", "p002"}

(***************************************************************************)
(* Descriptors.                                                            *)
(***************************************************************************)
Field(n, t, tn, l) == [name |-> n, type |-> t, typeName |-> tn, label |-> l]
Message(n, ff, nn) == [name |-> n, field |-> ff, nested |-> nn]
Method(n, i, o)    == [name |-> n, inputType |-> i, outputType |-> o]
Service(n, mm)     == [name |-> n, method |-> mm]
File(p, mm, ss)    == [package |-> p, messageType |-> mm, service |-> ss]

OPT == "optional"
REP == "repeated"

TimestampName == <<"google", "protobuf", "Timestamp">>

\* the last element of a sequence of strings, "" for the empty one
\* (strings.Split(s, ".") of "" is [""])
LastPart(parts) == IF parts = <<>> THEN "" ELSE parts[Len(parts)]

RECURSIVE Join(_, _)
\* strings.Join(ids, sep)
Join(ids, sep) ==
    IF ids = <<>> THEN ""
    ELSE IF Len(ids) = 1 THEN ids[1]
    ELSE ids[1] \o sep \o Join(Tail(ids), sep)

RECURSIVE Flatten(_)
\* the concatenation of a sequence of sequences
Flatten(ss) == IF ss = <<>> THEN <<>> ELSE Head(ss) \o Flatten(Tail(ss))

(***************************************************************************)
(* Predicates on descriptors.                                              *)
(***************************************************************************)
\* descriptor.FieldDescriptorProto_Type values that map to "number" / "0"
NumericTypes ==
    {"double", "float", "int64", "uint64", "int32", "fixed64", "fixed32",
     "uint32", "sfixed32", "sfixed64", "sint32", "sint64"}

\* the last segments of this model's names that end in the text "Entry"
EntrySuffixed ==
    {"Entry", "CountsEntry", "MetaEntry", "PEntry", "LogEntry", "SpotsEntry"}

isRepeated(label) == label = REP

isMessage(t) == t = "message"

\* strings.HasSuffix(typeName, "Entry")
isMap(typeName) == typeName # <<>> /\ LastPart(typeName) \in EntrySuffixed

isTimestamp(typeName) == typeName = TimestampName

isPrimitive(name) == name = "StringValue"

BuiltInCommon ==
    {"Timestamp", "DoubleValue", "FloatValue", "Int64Value", "UInt64Value",
     "Int32Value", "Fixed64Value", "Fixed32Value", "BoolValue", "StringValue",
     "GroupValue", "MessageValue", "BytesValue", "UInt32Value", "EnumValue",
     "Sfixed32Value", "Sfixed64Value", "Sint32Value", "Sint64Value"}

\* main.go also lists "Empty"
isBuiltIn(v, name) ==
    name \in (IF v = "main" THEN BuiltInCommon \cup {"Empty"} ELSE BuiltInCommon)

\* return zero value for primitive type
zv(t) ==
    IF t \in NumericTypes THEN "0"
    ELSE IF t = "bool" THEN "false"
    ELSE IF t = "string" THEN "\"\""
    ELSE "{}"

(***************************************************************************)
(* The index.  A lookup of a missing key yields Go's nil pointer; the      *)
(* generated getters of a nil descriptor return zero values.               *)
(***************************************************************************)
IsNil(idx, k) == k \notin DOMAIN idx

GetName(idx, k) == IF IsNil(idx, k) THEN "" ELSE idx[k].name

GetField(idx, k) == IF IsNil(idx, k) THEN <<>> ELSE idx[k].field

\* m[k] = v of a Go map: a later write replaces an earlier one
Put(idx, k, v) == [x \in DOMAIN idx \cup {k} |-> IF x = k THEN v ELSE idx[x]]

RECURSIVE PutNested(_, _, _)
\* for _, t := range message.GetNestedType() { messages[key+"."+t.GetName()] = t }
PutNested(idx, key, nn) ==
    IF nn = <<>> THEN idx
    ELSE PutNested(Put(idx, Append(key, Head(nn).name), Head(nn)), key, Tail(nn))

\* key := "." + f.GetPackage() + "." + message.GetName(); messages[key] = message
Register(idx, package, message) ==
    LET key == Append(package, message.name)
    IN  PutNested(Put(idx, key, message), key, message.nested)

(***************************************************************************)
(* getTypeScriptType (main.go, part_000).                                  *)
(***************************************************************************)
RECURSIVE gtsPanics(_, _)
\* index out of range in message.GetNestedType()[0], fields[0] or fields[1]
gtsPanics(message, field) ==
    /\ field.type \notin NumericTypes \cup {"bool", "string"}
    /\ ~isTimestamp(field.typeName)
    /\ isMap(field.typeName)
    /\ \/ message.nested = <<>>
       \/ Len(message.nested[1].field) < 2
       \/ gtsPanics(message.nested[1], message.nested[1].field[1])
       \/ gtsPanics(message.nested[1], message.nested[1].field[2])

RECURSIVE getTypeScriptType(_, _)
getTypeScriptType(message, field) ==
    LET msg == message.nested[1]
        result ==
            IF field.type \in NumericTypes THEN <<"number">>
            ELSE IF field.type = "bool" THEN <<"boolean">>
            ELSE IF field.type = "string" THEN <<"string">>
            ELSE IF isTimestamp(field.typeName) THEN <<"string">>
            ELSE IF isMap(field.typeName)
                 THEN <<"{ [name:">> \o getTypeScriptType(msg, msg.field[1])
                      \o <<"]:">> \o getTypeScriptType(msg, msg.field[2])
                      \o <<"}">>
            ELSE <<LastPart(field.typeName)>>
    IN  IF isRepeated(field.label) /\ ~isMap(field.typeName)
        THEN result \o <<"[]">>
        ELSE result

(***************************************************************************)
(* initiate (main.go): one constructor statement per field.                *)
(***************************************************************************)
initiatePanics(message, field) ==
    /\ isMap(field.typeName)
    /\ \/ message.nested = <<>>
       \/ Len(message.nested[1].field) < 2
       \/ gtsPanics(message.nested[1], message.nested[1].field[2])

\* the branch of initiate's if-chain that a field takes
initiateBranch(field) ==
    IF isMap(field.typeName) THEN "map"
    ELSE IF isRepeated(field.label) THEN "repeated"
    ELSE IF isTimestamp(field.typeName) THEN "timestamp"
    ELSE IF isMessage(field.type) THEN "message"
    ELSE "scalar"

\* the statement each branch formats
initiateEmit(branch, message, field) ==
    LET this == "this." \o field.name
        src  == "o." \o field.name
    IN  CASE branch = "map" ->
               <<this, "=", "Object.entries(", src, ")",
                 ".reduce((a, [k, v]) => {", "a[k] =", "new">>
               \o getTypeScriptType(message.nested[1], message.nested[1].field[2])
               \o <<"(", "v", "||", "{}", ")", "; return a", "}", ", {})">>
          [] branch = "repeated" -> <<this, "=", src, "||", "[]">>
          [] branch = "timestamp" -> <<this, "=", src, "||", "\"\"">>
          [] branch = "message" ->
               <<this, "=", "new", LastPart(field.typeName), "(", src, "||",
                 "{}", ")">>
          [] OTHER -> <<this, "=", src, "||", zv(field.type)>>

initiate(message, field) == initiateEmit(initiateBranch(field), message, field)

(***************************************************************************)
(* genField (part_000, part_001, part_002): the recursive synthesis of the *)
(* construction expression.  The three revisions differ in the branches of *)
(* the if-chain and in the guard of the repeated branch.                   *)
(***************************************************************************)
\* the branch of genField's if-chain that a field takes in revision v
genFieldBranch(v, f) ==
    IF v = "p000" /\ isTimestamp(f.typeName) THEN "timestamp"
    ELSE IF v \in {"p000", "p002"} /\ isMap(f.typeName) THEN "map"
    ELSE IF isRepeated(f.label) THEN "repeated"
    ELSE IF isMessage(f.type) THEN "message"
    ELSE "scalar"

\* no recursive call: the fields of the field's type are never generated
genFieldInnerNone(v, idx, f) == <<>>

\* the fields genField recurses into for field f: nestedValueType.GetField(),
\* fields, m.GetField(); <<>> when the branch makes no recursive call
genFieldInner(v, idx, f) ==
    LET b == genFieldBranch(v, f)
    IN  IF b = "map"
        THEN GetField(idx, GetField(idx, f.typeName)[2].typeName)
        ELSE IF b \in {"repeated", "message"} THEN GetField(idx, f.typeName)
        ELSE <<>>

\* whether the branch calls genField at all (the repeated branch only when
\* the element type has fields)
genFieldRecurses(v, idx, f) ==
    LET b == genFieldBranch(v, f)
    IN  \/ b \in {"map", "message"}
        \/ b = "repeated" /\ GetField(idx, f.typeName) # <<>>

RECURSIVE genFieldFault(_, _, _, _)
\* how a call of genField at stack depth d ends: "none" (it returns),
\* "panic" (nested.GetField()[1] out of range) or "overflow" (the goroutine
\* stack is exhausted); the first fault in evaluation order
genFieldFault(v, idx, ff, d) ==
    IF d > MaxStack THEN "overflow"
    ELSE IF ff = <<>> THEN "none"
    ELSE LET f == Head(ff)
             here ==
                 IF genFieldBranch(v, f) = "map"
                    /\ Len(GetField(idx, f.typeName)) < 2
                 THEN "panic"
                 ELSE IF genFieldRecurses(v, idx, f)
                 THEN genFieldFault(v, idx, genFieldInner(v, idx, f), d + 1)
                 ELSE "none"
         IN  IF here # "none" THEN here
             ELSE genFieldFault(v, idx, Tail(ff), d)

\* a separator after every field, the last one included
colonAlways(ff, i) == <<",">>

\* apped colon when not the last field (i counts from 1 here)
colon(ff, i) == IF Len(ff) - 1 = i - 1 THEN <<>> ELSE <<",">>

RECURSIVE genField(_, _, _, _, _)
\* the text genField returns, as lines; id is the variadic access path
genField(v, idx, ff, id, d) ==
    LET one(i) ==
            LET f    == ff[i]
                b    == genFieldBranch(v, f)
                path == Join(Append(id, f.name), ".")
                sub(nid) ==
                    IF d >= MaxStack THEN <<>>
                    ELSE genField(v, idx, genFieldInner(v, idx, f), nid, d + 1)
            IN  CASE b = "timestamp" ->
                       << <<f.name, ":", path, "||", "\"\"">> \o colon(ff, i) >>
                  [] b = "map" ->
                       << <<f.name, ":", "Object.entries(", path, ")",
                            ".reduce((a, [k, v]) => {">>,
                          <<"a[k] =", "{">> >>
                       \o sub(<<"v">>)
                       \o << <<"}">>,
                             <<"return a">>,
                             <<"}", ", {})">> \o colon(ff, i) >>
                  [] b = "repeated" ->
                       << IF v = "p000"
                          THEN <<f.name, ":", path, "?", path, ".map(v => {">>
                          ELSE <<f.name, ":", path, ".map(v => {">> >>
                       \o (IF GetField(idx, f.typeName) = <<>>
                           THEN << <<"return", "v", "||", zv(f.type)>> >>
                           ELSE << <<"return", "{">> >> \o sub(<<"v">>)
                                \o << <<"}">> >>)
                       \o << (IF v = "p000" THEN <<"})", ": []">> ELSE <<"})">>)
                             \o colon(ff, i) >>
                  [] b = "message" ->
                       << <<f.name, ":", "{">> >>
                       \o sub(Append(id, f.name))
                       \o << <<"}">> \o colon(ff, i) >>
                  [] OTHER ->
                       << <<f.name, ":", path, "||", zv(f.type)>> \o colon(ff, i) >>
    IN  Flatten([i \in 1..Len(ff) |-> one(i)])

(***************************************************************************)
(* The requests the model runs the plugin on.                              *)
(***************************************************************************)
Trpc == <<"trpc">>
Shop == <<"shop">>
Wkt  == <<"google", "protobuf">>

Scalar(n, t) == Field(n, t, <<>>, OPT)
Ref(n, tn, l) == Field(n, "message", tn, l)

Point == Message("Point", <<Scalar("x", "double"), Scalar("y", "double")>>, <<>>)
Info  == Message("Info", <<Scalar("note", "string")>>, <<>>)

CountsEntry ==
    Message("CountsEntry", <<Scalar("key", "string"), Scalar("value", "int32")>>, <<>>)
MetaEntry ==
    Message("MetaEntry",
            <<Scalar("key", "int32"), Ref("value", <<"trpc", "Info">>, OPT)>>, <<>>)
\* message Stats { map<string,int32> counts; map<int32,Info> meta; }
Stats ==
    Message("Stats",
            <<Ref("counts", <<"trpc", "Stats", "CountsEntry">>, REP),
              Ref("meta", <<"trpc", "Stats", "MetaEntry">>, REP)>>,
            <<CountsEntry, MetaEntry>>)
User ==
    Message("User",
            <<Scalar("name", "string"),
              Ref("home", <<"trpc", "Point">>, OPT),
              Field("tags", "string", <<>>, REP),
              Ref("pals", <<"trpc", "Info">>, REP),
              Scalar("active", "bool")>>, <<>>)
Node == Message("Node", <<Ref("next", <<"trpc", "Node">>, OPT)>>, <<>>)
Tree ==
    Message("Tree",
            <<Scalar("id", "int32"), Ref("kids", <<"trpc", "Tree">>, REP)>>, <<>>)
Ping == Message("Ping", <<Ref("pong", <<"trpc", "Pong">>, OPT)>>, <<>>)
Pong == Message("Pong", <<Ref("ping", <<"trpc", "Ping">>, OPT)>>, <<>>)
Ghost == Message("Ghost", <<Ref("gone", <<"trpc", "Missing">>, OPT)>>, <<>>)
Timestamp ==
    Message("Timestamp", <<Scalar("seconds", "int64"), Scalar("nanos", "int32")>>, <<>>)
StringValue == Message("StringValue", <<Scalar("value", "string")>>, <<>>)
Stamps ==
    Message("Stamps",
            <<Ref("at", TimestampName, OPT), Ref("times", TimestampName, REP)>>, <<>>)
ShopInfo == Message("Info", <<Scalar("price", "int32")>>, <<>>)

WktFile == File(Wkt, <<Timestamp, StringValue>>, <<>>)

Scenarios ==
    { \* scenarios A-D of the specification: scalars, repeated, maps, a method
      << File(Trpc, <<Point, Info, Stats, User>>,
              << Service("Haberdasher",
                   << Method("GetUser", <<"trpc", "Point">>, <<"trpc", "User">>),
                      Method("GetStats", <<"trpc", "Info">>, <<"trpc", "Stats">>) >>) >>) >>,
      \* a message with a field of its own type
      << File(Trpc, <<Node>>,
              << Service("Haberdasher",
                   << Method("GetNode", <<"trpc", "Node">>, <<"trpc", "Node">>) >>) >>) >>,
      << File(Trpc, <<Tree>>,
              << Service("Haberdasher",
                   << Method("GetTree", <<"trpc", "Tree">>, <<"trpc", "Tree">>) >>) >>) >>,
      \* two messages that reference each other
      << File(Trpc, <<Ping, Pong>>,
              << Service("Haberdasher",
                   << Method("GetPing", <<"trpc", "Pong">>, <<"trpc", "Ping">>) >>) >>) >>,
      \* references to a type no file declares
      << File(Trpc, <<Point, Ghost>>,
              << Service("Haberdasher",
                   << Method("GetGhost", <<"trpc", "Point">>, <<"trpc", "Ghost">>),
                      Method("Lost", <<"trpc", "Point">>, <<"trpc", "Missing">>),
                      Method("Blind", <<"trpc", "Missing">>, <<"trpc", "Point">>) >>) >>) >>,
      \* two services, two packages
      << File(Trpc, <<Point>>,
              << Service("Haberdasher",
                   << Method("MakeHat", <<"trpc", "Point">>, <<"trpc", "Point">>) >>) >>),
         File(Shop, <<ShopInfo>>,
              << Service("Greeter",
                   << Method("Hello", <<"shop", "Info">>, <<"shop", "Info">>) >>) >>) >>,
      \* a service in a file that precedes the file declaring its types
      << File(Shop, <<>>,
              << Service("Greeter",
                   << Method("Hello", <<"trpc", "Point">>, <<"trpc", "Point">>) >>) >>),
         File(Trpc, <<Point>>, <<>>) >>,
      \* well-known types
      << WktFile,
         File(Trpc, <<Stamps>>,
              << Service("Haberdasher",
                   << Method("GetStamps", <<"trpc", "Stamps">>, <<"trpc", "Stamps">>),
                      Method("Echo", <<"google", "protobuf", "StringValue">>,
                             <<"google", "protobuf", "StringValue">>) >>) >>) >> }

\* message Probe: one field of every combination of tag, label and type
\* reference, before or after up to MaxTail scalar fields
ProbeTypes == {"int32", "string", "bool", "message", "enum"}
ProbeRefs ==
    { <<>>, TimestampName, <<"trpc", "Probe", "PEntry">>, <<"trpc", "Point">>,
      <<"trpc", "Missing">> }
PEntry ==
    Message("PEntry",
            <<Scalar("key", "string"), Ref("value", <<"trpc", "Info">>, OPT)>>, <<>>)
TailNames == <<"t1", "t2", "t3", "t4">>
ProbeTail(n) == [i \in 1..n |-> Scalar(TailNames[i], "int32")]
ProbeFields ==
    { Field("p", t, tn, l) : t \in ProbeTypes, tn \in ProbeRefs, l \in {OPT, REP} }
ProbeMessages ==
    { Message("Probe", ProbeTail(n) \o <<f>>, <<PEntry>>) : n \in 0..MaxTail,
                                                         f \in ProbeFields }
    \cup
    { Message("Probe", <<f>> \o ProbeTail(n), <<PEntry>>) : n \in 0..MaxTail,
                                                         f \in ProbeFields }
ProbeRequests ==
    { << WktFile,
         File(Trpc, <<Point, Info, m>>,
              << Service("Haberdasher",
                   << Method("GetProbe", <<"trpc", "Point">>, <<"trpc", "Probe">>) >>) >>) >>
      : m \in ProbeMessages }

\* message Outer { message Inner { string note = 1; } Inner in = 1; }
Inner == Message("Inner", <<Scalar("note", "string")>>, <<>>)
Outer ==
    Message("Outer", <<Ref("in", <<"trpc", "Outer", "Inner">>, OPT)>>, <<Inner>>)
\* a top-level message whose name ends in "Entry", and a message that uses it
LogEntry == Message("LogEntry", <<Scalar("text", "string")>>, <<>>)
Journal == Message("Journal", <<Ref("last", <<"trpc", "LogEntry">>, OPT)>>, <<>>)
\* a message that uses the entry type another message declares
Board ==
    Message("Board", <<Ref("counts", <<"trpc", "Stats", "CountsEntry">>, REP)>>, <<>>)
\* three levels of nesting: message in message, repeated, map
SpotsEntry ==
    Message("SpotsEntry",
            <<Scalar("key", "string"), Ref("value", <<"trpc", "Point">>, OPT)>>, <<>>)
Deep3 ==
    Message("Deep3",
            <<Ref("p", <<"trpc", "Point">>, OPT),
              Scalar("s", "string"),
              Ref("spots", <<"trpc", "Deep3", "SpotsEntry">>, REP),
              Ref("q", <<"trpc", "Point">>, OPT)>>,
            <<SpotsEntry>>)
Deep2 ==
    Message("Deep2",
            <<Ref("three", <<"trpc", "Deep3">>, OPT),
              Ref("many", <<"trpc", "Deep3">>, REP),
              Scalar("n", "int32")>>, <<>>)
Deep1 ==
    Message("Deep1", <<Ref("two", <<"trpc", "Deep2">>, OPT), Scalar("id", "string")>>,
            <<>>)

MoreScenarios ==
    { << File(Trpc, <<Outer>>,
              << Service("Haberdasher",
                   << Method("GetOuter", <<"trpc", "Outer">>, <<"trpc", "Outer">>) >>) >>) >>,
      << File(Trpc, <<LogEntry, Journal>>,
              << Service("Haberdasher",
                   << Method("GetJournal", <<"trpc", "LogEntry">>,
                             <<"trpc", "Journal">>) >>) >>) >>,
      << File(Trpc, <<Info, Stats, Board>>,
              << Service("Haberdasher",
                   << Method("GetBoard", <<"trpc", "Info">>, <<"trpc", "Board">>) >>) >>) >>,
      << File(Trpc, <<Point, Deep3, Deep2, Deep1>>,
              << Service("Haberdasher",
                   << Method("GetDeep", <<"trpc", "Point">>, <<"trpc", "Deep1">>) >>) >>) >> }

ProtoFiles == Scenarios \cup MoreScenarios \cup ProbeRequests

\* req.FileToGenerate[0], as characters: up to MaxSegs chunks and ".proto"
Proto == <<".", "p", "r", "o", "t", "o">>
Chunks ==
    { <<"s", "v", "c">>,
      <<"a", ".", "p", "r", "o", "t", "o", "/">>,
      <<"x", ".", "p", "r", "o", "t", "o", "s", "/">> }
RECURSIVE NamesOf(_)
NamesOf(n) ==
    IF n = 0 THEN { <<>> }
    ELSE NamesOf(n - 1) \cup { c \o s : c \in Chunks, s \in NamesOf(n - 1) }
FileNames == { s \o Proto : s \in NamesOf(MaxSegs) }

(***************************************************************************)
(* main: the loops over req.ProtoFile, flattened into the order in which   *)
(* their bodies run: per file, every message, then every method.           *)
(***************************************************************************)
MessageItem(f, m) ==
    [kind |-> "message", package |-> f.package, message |-> m,
     service |-> "", method |-> Method("", <<>>, <<>>)]
MethodItem(f, sv, mt) ==
    [kind |-> "method", package |-> f.package, message |-> Message("", <<>>, <<>>),
     service |-> sv.name, method |-> mt]

FileWork(f) ==
    [i \in 1..Len(f.messageType) |-> MessageItem(f, f.messageType[i])]
    \o Flatten([k \in 1..Len(f.service) |->
                  [j \in 1..Len(f.service[k].method) |->
                     MethodItem(f, f.service[k], f.service[k].method[j])]])

Work(r) == Flatten([i \in 1..Len(r.protoFile) |-> FileWork(r.protoFile[i])])

\* var classes = []string{...}: the three declarations main.go starts from
InitialClasses ==
    << << <<"export class", "Empty", "extends Object{}">> >>,
       << <<>> >>,
       << <<"export class", "StringValue", "extends String{}">> >>,
       << <<>> >>,
       << <<"export class", "UInt64Value", "extends Number{}">> >> >>

\* const class (main.go): the class declaration of one message, as lines
class(message) ==
    << <<"export class", message.name, "{">> >>
    \o [i \in 1..Len(message.field) |->
          <<message.field[i].name, ":">>
          \o getTypeScriptType(message, message.field[i])]
    \o << <<"constructor(o) {">> >>
    \o [i \in 1..Len(message.field) |-> initiate(message, message.field[i])]
    \o << <<"}">>, <<"}">> >>

classPanics(message) ==
    \E i \in 1..Len(message.field) :
        \/ gtsPanics(message, message.field[i])
        \/ initiatePanics(message, message.field[i])

\* const stuff (part_000): the interface declaration of one message
stuff(message) ==
    << <<"interface", message.name, "{">> >>
    \o [i \in 1..Len(message.field) |->
          <<message.field[i].name, ":">>
          \o getTypeScriptType(message, message.field[i])]
    \o << <<"}">> >>

stuffPanics(message) ==
    \E i \in 1..Len(message.field) : gtsPanics(message, message.field[i])

\* part_002 builds a class with a constructor and only logs it
classString(message) ==
    << <<"class", message.name, "{">>, <<"constructor (o) {">> >>
    \o [i \in 1..Len(message.field) |->
          LET f == message.field[i]
          IN  IF isMessage(f.type)
              THEN <<"this." \o f.name, "=", "new", LastPart(f.typeName), "(",
                     "o." \o f.name, ")">>
              ELSE <<"this." \o f.name, "=", "o." \o f.name, "||", zv(f.type)>>]
    \o << <<"}">>, <<"}">> >>

\* type Method struct; the fields a revision does not have stay empty
MethodRec(sv, n, on, fld, ot, it) ==
    [Service |-> sv, Name |-> n, OutputName |-> on, Field |-> fld,
     OutputType |-> ot, InputType |-> it]

\* the body of "for _, message := range f.MessageType"
RegisterMessage ==
    /\ pc = "run"
    /\ pos <= Len(Work(req))
    /\ Work(req)[pos].kind = "message"
    /\ LET it  == Work(req)[pos]
           m   == it.message
           gen == ~isBuiltIn(variant, m.name)
           bad == CASE variant = "main" -> gen /\ classPanics(m)
                    [] variant = "p000" -> gen /\ stuffPanics(m)
                    [] OTHER -> FALSE
       IN  IF bad
           THEN /\ pc' = "panic"
                /\ UNCHANGED <<pos, messages, classes, logged>>
           ELSE /\ pc' = pc
                /\ pos' = pos + 1
                /\ classes' = IF variant = "main" /\ gen
                              THEN Append(classes, class(m))
                              ELSE classes
                /\ logged' = CASE variant = "p000" /\ gen ->
                                    logged \o <<stuff(m), << <<"---">> >> >>
                               [] variant = "p002" ->
                                    logged
                                    \o [i \in 1..Len(m.field) |->
                                          << <<"field", m.field[i].name>> >>]
                                    \o <<classString(m)>>
                               [] OTHER -> logged
                \* part_000 continues before the registration, which is
                \* commented out there
                /\ messages' = IF variant = "p000" THEN messages
                               ELSE Register(messages, it.package, m)
    /\ UNCHANGED <<variant, req, Methods, out, rt, call>>

\* the body of "for _, method := range service.Method"
BindMethod ==
    /\ pc = "run"
    /\ pos <= Len(Work(req))
    /\ Work(req)[pos].kind = "method"
    /\ LET it   == Work(req)[pos]
           mt   == it.method
           oNil == IsNil(messages, mt.outputType)
           oNm  == GetName(messages, mt.outputType)
           iNm  == GetName(messages, mt.inputType)
           \* outputType.Field of a nil outputType is a nil dereference
           flt  == IF oNil THEN "nil"
                   ELSE genFieldFault(variant, messages,
                                      messages[mt.outputType].field, 1)
           fld  == << <<"const", oNm, "= {">> >>
                   \o genField(variant, messages, messages[mt.outputType].field,
                               <<"data">>, 1)
                   \o << <<"}">> >>
           direct == variant = "main" \/ (variant = "p000" /\ isPrimitive(oNm))
       IN  IF ~direct /\ flt # "none"
           THEN /\ pc' = flt
                /\ UNCHANGED <<pos, Methods>>
           ELSE /\ pc' = pc
                /\ pos' = pos + 1
                /\ Methods' =
                     Append(Methods,
                       CASE variant = "main" ->
                              MethodRec(it.service, mt.name, "", <<>>, oNm, iNm)
                         [] variant = "p000" /\ direct ->
                              MethodRec(it.service, mt.name, "data", <<>>, oNm, iNm)
                         [] variant = "p000" /\ ~direct ->
                              MethodRec(it.service, mt.name, oNm, fld, oNm, iNm)
                         [] OTHER ->
                              MethodRec("", mt.name, oNm, fld, "", ""))
    /\ UNCHANGED <<variant, req, messages, classes, logged, out, rt, call>>

(***************************************************************************)
(* The end of main: the blueprint template, the file name, the response.   *)
(***************************************************************************)
\* the status a generated function accepts
StatusOK == 200

\* the statements of the function that const blueprint declares, in order
blueprintSteps(v) ==
    CASE v = "main" -> <<"token", "fetch", "check", "json", "return">>
      [] v = "p000" -> <<"token", "fetch", "check", "json", "field", "return">>
      [] v = "p001" -> <<"fetch", "json", "field", "return">>
      [] OTHER      -> <<"token", "fetch", "json", "field", "return">>

\* the argument of fetch: the path, with what the template takes from a
\* Method and what it spells out
blueprintPath(v, m) ==
    CASE v \in {"main", "p000"} -> <<"/twirp/", "trpc", ".", m.Service, "/", m.Name>>
      [] v = "p001" -> <<"twirp/", "trpc", ".", "Haberdasher", "/", m.Name>>
      [] OTHER      -> <<"/twirp/", "trpc", ".", "Haberdasher", "/", m.Name>>

\* one {{range}} iteration of const blueprint
blueprint(v, m) ==
    [name     |-> m.Name,
     exported |-> v = "main",
     input    |-> m.InputType,
     output   |-> m.OutputType,
     httpVerb |-> "POST",
     path     |-> blueprintPath(v, m),
     steps    |-> blueprintSteps(v),
     field    |-> m.Field,
     result   |-> IF v = "main" THEN <<"new", m.OutputType, "(data)">>
                  ELSE <<m.OutputName>>]

\* generate last export line for javascript file
export(mm) == <<"export {", Join([i \in 1..Len(mm) |-> mm[i].Name], ", "), "}">>

RECURSIVE Replace(_, _, _)
\* strings.Replace(s, old, new, -1): every non-overlapping occurrence
Replace(s, old, new) ==
    IF Len(s) < Len(old) THEN s
    ELSE IF SubSeq(s, 1, Len(old)) = old
         THEN new \o Replace(SubSeq(s, Len(old) + 1, Len(s)), old, new)
         ELSE <<Head(s)>> \o Replace(Tail(s), old, new)

targetExt(v) == IF v \in {"main", "p000"} THEN <<".", "t", "s">> ELSE <<".", "j", "s">>

outputName(v, fileToGenerate) == Replace(fileToGenerate, Proto, targetExt(v))

content(v, cc, mm) ==
    [classes  |-> IF v = "main" THEN cc ELSE <<>>,
     bindings |-> [i \in 1..Len(mm) |-> blueprint(v, mm[i])],
     exports  |-> IF v = "main" THEN <<>> ELSE export(mm)]

\* from template.Must(...Parse(blueprint)) to os.Stdout.Write(out)
WriteArtifact ==
    /\ pc = "run"
    /\ pos > Len(Work(req))
    /\ pc' = "written"
    /\ out' = Append(out, [name    |-> outputName(variant, req.fileToGenerate),
                           content |-> content(variant, classes, Methods)])
    /\ UNCHANGED <<variant, req, pos, messages, classes, Methods, logged, rt, call>>

(***************************************************************************)
(* A call of one generated function, when the artifact runs: the           *)
(* statements of the emitted body, in the order of the emitted text.       *)
(***************************************************************************)
Statuses == {StatusOK, 500}

Idle ==
    [state |-> "idle", fn |-> 0, ip |-> 0, status |-> 0, posts |-> 0,
     checked |-> FALSE, parsed |-> FALSE, built |-> FALSE, error |-> ""]

\* the caller invokes binding i; the server will answer with status st
Invoke ==
    /\ pc = "written"
    /\ rt.state = "idle"
    /\ \E i \in 1..Len(out[1].content.bindings), st \in Statuses :
          rt' = [Idle EXCEPT !.state = "running", !.fn = i, !.ip = 1, !.status = st]
    /\ UNCHANGED <<variant, req, pos, pc, messages, classes, Methods, logged, out, call>>

\* the next statement of the running function
Execute ==
    /\ rt.state = "running"
    /\ LET stmt == out[1].content.bindings[rt.fn].steps[rt.ip]
           next == [rt EXCEPT !.ip = rt.ip + 1]
       IN  rt' =
             CASE stmt = "token" -> next
               [] stmt = "fetch" -> [next EXCEPT !.posts = rt.posts + 1]
               [] stmt = "check" ->
                    IF rt.status # StatusOK
                    THEN [rt EXCEPT !.state = "thrown", !.checked = TRUE,
                                    !.error = "statusText"]
                    ELSE [next EXCEPT !.checked = TRUE]
               [] stmt = "json"  -> [next EXCEPT !.parsed = TRUE]
               [] stmt = "field" -> [next EXCEPT !.built = TRUE]
               [] OTHER ->
                    \* return: main.go's "return new T(data)" constructs here
                    [rt EXCEPT !.state = "returned",
                               !.built = rt.built \/ variant = "main"]
    /\ UNCHANGED <<variant, req, pos, pc, messages, classes, Methods, logged, out, call>>

NoCall ==
    [fn |-> "", ff |-> <<>>, id |-> <<>>, fault |-> "none", text |-> <<>>,
     ids |-> <<>>]

Init ==
    /\ variant \in Variants
    /\ req \in [protoFile : ProtoFiles, fileToGenerate : FileNames]
    /\ pos = 1
    /\ pc = "run"
    /\ messages = <<>>
    /\ classes = InitialClasses
    /\ Methods = <<>>
    /\ logged = <<>>
    /\ out = <<>>
    /\ rt = Idle
    /\ call = NoCall

Next == RegisterMessage \/ BindMethod \/ WriteArtifact \/ Invoke \/ Execute

Spec == Init /\ [][Next]_vars

(***************************************************************************)
(* genField as a function: applied to the field list of any registered     *)
(* type under any access path, against the index that the registration     *)
(* loop (main.go 136-144, part_002 97-105) builds from a request.          *)
(* part_000's own main never fills the index (its registration is          *)
(* commented out), so this is where its genField meets a non-empty one.    *)
(***************************************************************************)
RECURSIVE RegisterAll(_, _, _)
\* the index once the message loop has run over mm of a file with package p
RegisterAll(idx, p, mm) ==
    IF mm = <<>> THEN idx
    ELSE RegisterAll(Register(idx, p, Head(mm)), p, Tail(mm))

RECURSIVE BuildIndex(_, _)
\* the index once every file of ff has been read
BuildIndex(idx, ff) ==
    IF ff = <<>> THEN idx
    ELSE BuildIndex(RegisterAll(idx, Head(ff).package, Head(ff).messageType), Tail(ff))

GenFieldVariants == {"p000", "p001", "p002"}

(***************************************************************************)
(* The access path of genField is a Go slice: a window [arr, len, cap] on  *)
(* a backing array.  heap is the sequence of the backing arrays allocated  *)
(* so far; two slices with one arr share their elements.                   *)
(***************************************************************************)
\* the elements of slice s
View(heap, s) == SubSeq(heap[s.arr], 1, s.len)

\* a new backing array of capacity cap that starts with elems, as a variadic
\* call genField(ff, "data") or the literal []string{"v"} makes it
alloc(heap, elems, cap) ==
    [heap  |-> Append(heap, elems \o [k \in 1..(cap - Len(elems)) |-> ""]),
     slice |-> [arr |-> Len(heap) + 1, len |-> Len(elems), cap |-> cap]]

\* an append that extends the slice in place without storing the element
appendStale(heap, s, x) ==
    IF s.len < s.cap
    THEN [heap |-> heap, slice |-> [s EXCEPT !.len = s.len + 1]]
    ELSE alloc(heap, View(heap, s) \o <<x>>, IF s.cap = 0 THEN 1 ELSE 2 * s.cap)

\* the built-in append(s, x): in place when the capacity allows, otherwise
\* into a new array of twice the capacity
append(heap, s, x) ==
    IF s.len < s.cap
    THEN [heap  |-> [heap EXCEPT ![s.arr][s.len + 1] = x],
          slice |-> [s EXCEPT !.len = s.len + 1]]
    ELSE alloc(heap, View(heap, s) \o <<x>>, IF s.cap = 0 THEN 1 ELSE 2 * s.cap)

RECURSIVE genFieldIds(_, _, _, _, _, _)
\* the value of ids at every strings.Join(ids, ".") of a call of genField
\* and of the calls it makes, in the order they are executed, from field i
\* of ff on; id is the slice the call received
genFieldIds(v, idx, ff, i, id, heap) ==
    IF i > Len(ff) THEN [heap |-> heap, ids |-> <<>>]
    ELSE LET f      == ff[i]
             b      == genFieldBranch(v, f)
             a      == append(heap, id, f.name)
             joined == [name |-> f.name, path |-> View(a.heap, a.slice)]
             vs     == alloc(a.heap, <<"v">>, 1)
             inner  == genFieldInner(v, idx, f)
             sub    ==
                 CASE b = "map" \/ (b = "repeated" /\ inner # <<>>) ->
                        genFieldIds(v, idx, inner, 1, vs.slice, vs.heap)
                   [] b = "message" ->
                        genFieldIds(v, idx, inner, 1, a.slice, a.heap)
                   [] OTHER -> [heap |-> a.heap, ids |-> <<>>]
             rest   == genFieldIds(v, idx, ff, i + 1, id, sub.heap)
         IN  [heap |-> rest.heap,
              ids  |-> (IF b = "message" THEN <<>> ELSE <<joined>>)
                       \o sub.ids \o rest.ids]

\* the access paths genField is entered with: the root, a loop variable,
\* the root extended by an enclosing message field
AccessPaths == { <<"data">>, <<"v">>, <<"data", "home">> }

InitFn ==
    /\ variant \in GenFieldVariants
    /\ req \in [protoFile : ProtoFiles, fileToGenerate : {<<"s", "v", "c">> \o Proto}]
    /\ messages = BuildIndex(<<>>, req.protoFile)
    /\ pos = 1
    /\ pc = "run"
    /\ classes = InitialClasses
    /\ Methods = <<>>
    /\ logged = <<>>
    /\ out = <<>>
    /\ rt = Idle
    /\ call = NoCall

ApplyGenField ==
    /\ call = NoCall
    /\ \E k \in DOMAIN messages, id \in AccessPaths :
          LET ff  == messages[k].field
              flt == genFieldFault(variant, messages, ff, 1)
              arg == alloc(<<>>, id, Len(id))
          IN  call' = [fn |-> "genField", ff |-> ff, id |-> id, fault |-> flt,
                       text |-> IF flt = "none"
                                THEN genField(variant, messages, ff, id, 1)
                                ELSE <<>>,
                       ids  |-> IF flt = "none"
                                THEN genFieldIds(variant, messages, ff, 1,
                                                 arg.slice, arg.heap).ids
                                ELSE <<>>]
    /\ UNCHANGED <<variant, req, pos, pc, messages, classes, Methods, logged, out, rt>>

NextFn == ApplyGenField

SpecFn == InitFn /\ [][NextFn]_vars

(***************************************************************************)
(* Properties.                                                             *)
(***************************************************************************)
\* the messages main.go has appended a class for, in order
Emitted ==
    SelectSeq(SubSeq(Work(req), 1, pos - 1),
              LAMBDA it : it.kind = "message" /\ ~isBuiltIn("main", it.message.name))

\* the class text main.go appended for the j-th of them
ClassOf(j) == classes[Len(InitialClasses) + j]

\* the constructor statement of field i in the class text c of message m
Statement(c, m, i) == c[Len(m.field) + 2 + i]

\* the declared type of field i in the class text c
Declared(c, i) == SubSeq(c[1 + i], 3, Len(c[1 + i]))

\* the precedence of the specification: Timestamp, Map, Repeated, Message, Scalar
FirstMatch(f) ==
    IF isTimestamp(f.typeName) THEN "timestamp"
    ELSE IF isMap(f.typeName) THEN "map"
    ELSE IF isRepeated(f.label) THEN "repeated"
    ELSE IF isMessage(f.type) THEN "message"
    ELSE "scalar"

\* C1: every constructor statement main.go emits is the statement of the
\* first category, in the order Timestamp, Map, Repeated, Message, Scalar,
\* that the field matches.
C1_FirstMatchWins ==
    variant = "main" =>
        \A j \in 1..Len(Emitted) :
            LET m == Emitted[j].message
            IN  \A i \in 1..Len(m.field) :
                    Statement(ClassOf(j), m, i)
                        = initiateEmit(FirstMatch(m.field[i]), m, m.field[i])

\* every type name a message's fields, and its nested messages' fields, use
RECURSIVE MessageRefs(_)
MessageRefs(m) ==
    { m.field[i].typeName : i \in 1..Len(m.field) }
    \cup UNION { MessageRefs(m.nested[i]) : i \in 1..Len(m.nested) }

FileRefs(f) ==
    UNION { MessageRefs(f.messageType[i]) : i \in 1..Len(f.messageType) }
    \cup UNION { UNION { { f.service[k].method[j].inputType,
                           f.service[k].method[j].outputType }
                         : j \in 1..Len(f.service[k].method) }
                 : k \in 1..Len(f.service) }

\* every type reference of the request names a type some file declares
AllResolve(r) ==
    \A t \in UNION { FileRefs(r.protoFile[i]) : i \in 1..Len(r.protoFile) } \ { <<>> } :
        t \in DOMAIN BuildIndex(<<>>, r.protoFile)

\* C2: on a request whose type references all resolve, the recursion of
\* genField returns: the run never ends with the stack exhausted.
C2_Terminates == AllResolve(req) => pc # "overflow"

\* C3: an artifact is written only when every method input type, method
\* output type and field type reference of the request is registered.
C3_NoArtifactWhenUnresolved == out # <<>> => AllResolve(req)

\* the entry message of map field f of message m in package p: the nested
\* type of m that f.typeName names
OwnEntries(p, m, f) ==
    { k \in 1..Len(m.nested) :
        f.typeName = Append(Append(p, m.name), m.nested[k].name) }

\* the keyed-object type of a map entry: its key field and its value field
KeyedType(e) ==
    <<"{ [name:">> \o getTypeScriptType(e, e.field[1]) \o <<"]:">>
    \o getTypeScriptType(e, e.field[2]) \o <<"}">>

\* C4: every map field of every class main.go emits is declared with the
\* keyed-object type of its own entry message.
C4_MapTypeOfOwnEntry ==
    variant = "main" =>
        \A j \in 1..Len(Emitted) :
            LET m == Emitted[j].message
                p == Emitted[j].package
            IN  \A i \in 1..Len(m.field) :
                    \A k \in OwnEntries(p, m, m.field[i]) :
                        (isMessage(m.field[i].type) /\ isMap(m.field[i].typeName)) =>
                            Declared(ClassOf(j), i) = KeyedType(m.nested[k])

\* every line of generated source held by the run: the classes and the
\* bodies built for the methods
EmittedLines ==
    UNION { { classes[j][i] : i \in 1..Len(classes[j]) } : j \in 1..Len(classes) }
    \cup UNION { { Methods[j].Field[i] : i \in 1..Len(Methods[j].Field) }
                 : j \in 1..Len(Methods) }

\* In JavaScript Object.entries(x) and x.map(...) throw a TypeError when x is
\* undefined.  The iteration at token p of line ln is not evaluated on an
\* absent source when a conditional on that source precedes it
\* (src ? ... : fallback) or its argument is defaulted (src || fallback).
Guarded(ln, p) ==
    LET src == IF ln[p] = "Object.entries(" THEN ln[p + 1] ELSE ln[p - 1]
    IN  \/ \E q \in 2..(p - 1) : ln[q] = "?" /\ ln[q - 1] = src
        \/ ln[p] = "Object.entries(" /\ Len(ln) >= p + 2 /\ ln[p + 2] = "||"

\* C5: the iteration over a map field's entries is reached only when the
\* source at the access path is present.
C5_MapIterationGuarded ==
    \A ln \in EmittedLines :
        \A p \in 1..Len(ln) : ln[p] = "Object.entries(" => Guarded(ln, p)

\* C6: a repeated non-map field yields the empty sequence on an absent
\* source (the mapping is guarded) and maps each element when it is present
\* (main.go: the statement of a repeated field maps its source).
C6_RepeatedGuardedAndMapped ==
    /\ \A ln \in EmittedLines :
          \A p \in 2..Len(ln) : ln[p] = ".map(v => {" => Guarded(ln, p)
    /\ variant = "main" =>
          \A j \in 1..Len(Emitted) :
              LET m == Emitted[j].message
              IN  \A i \in 1..Len(m.field) :
                      FirstMatch(m.field[i]) = "repeated" =>
                          \E p \in 1..Len(Statement(ClassOf(j), m, i)) :
                              Statement(ClassOf(j), m, i)[p] = ".map(v => {"

\* the containers a line opens and closes (a zero value "{}" and the
\* reduce seed ", {})" open and close their own)
Opens(ln) ==
    Cardinality({ p \in 1..Len(ln) :
                    ln[p] \in {"{", ".reduce((a, [k, v]) => {", ".map(v => {"} })
Closes(ln) == Cardinality({ p \in 1..Len(ln) : ln[p] \in {"}", "})"} })

RECURSIVE DepthAfter(_, _)
\* the nesting depth of text after its line j (0 before the first line)
DepthAfter(text, j) ==
    IF j = 0 THEN 0
    ELSE DepthAfter(text, j - 1) + Opens(text[j]) - Closes(text[j])

\* line j begins the fragment of a field: "name: ..."
FieldStart(text, j) == Len(text[j]) >= 2 /\ text[j][2] = ":"

\* the line that ends the fragment begun at line j: the first at which the
\* depth is back to what it was before j
FragmentEnd(text, j) ==
    CHOOSE e \in j..Len(text) :
        /\ DepthAfter(text, e) = DepthAfter(text, j - 1)
        /\ \A x \in j..(e - 1) : DepthAfter(text, x) # DepthAfter(text, j - 1)

\* the fragment ending at line e is followed by the separator
Separated(text, e) == text[e][Len(text[e])] = ","

\* no field of the same level follows the fragment ending at line e
LastOfLevel(text, e) == e = Len(text) \/ ~FieldStart(text, e + 1)

\* the names of the fields that start at depth 0, in text order
TopNames(text) ==
    LET starts == SelectSeq([j \in 1..Len(text) |-> j],
                            LAMBDA j : FieldStart(text, j)
                                       /\ DepthAfter(text, j - 1) = 0)
    IN  [i \in 1..Len(starts) |-> text[starts[i]][1]]

\* C7: in the text genField returns, the fields of the call appear in
\* declaration order, and at every nesting level a field's fragment ends
\* with the separator exactly when another field of its level follows.
C7_SeparatorExceptLast ==
    (call.fn = "genField" /\ call.fault = "none") =>
        /\ TopNames(call.text) = [i \in 1..Len(call.ff) |-> call.ff[i].name]
        /\ \A j \in 1..Len(call.text) :
              FieldStart(call.text, j) =>
                  /\ \E e \in j..Len(call.text) :
                        DepthAfter(call.text, e) = DepthAfter(call.text, j - 1)
                  /\ Separated(call.text, FragmentEnd(call.text, j))
                       <=> ~LastOfLevel(call.text, FragmentEnd(call.text, j))

\* part_000's genField has returned the text of a message whose last field
\* is a map with a nested level and whose first field is followed by another
C7_Witness ==
    /\ call.fn = "genField" /\ call.fault = "none" /\ variant = "p000"
    /\ Len(call.ff) >= 2
    /\ genFieldBranch(variant, call.ff[Len(call.ff)]) = "map"
    /\ \E j \in 1..Len(call.text) :
          FieldStart(call.text, j) /\ DepthAfter(call.text, j - 1) = 2
    /\ Separated(call.text, FragmentEnd(call.text, 1))
    /\ ~Separated(call.text, Len(call.text))

\* the methods of the request, in the order main binds them
MethodItems == SelectSeq(Work(req), LAMBDA it : it.kind = "method")

\* C8: the endpoint path of every binding of the written artifact names the
\* package and the name of the service that owns the method, and the method.
C8_PathOfOwningService ==
    out # <<>> =>
        \A j \in 1..Len(out[1].content.bindings) :
            LET path == out[1].content.bindings[j].path
            IN  /\ path[2] = Join(MethodItems[j].package, ".")
                /\ path[4] = MethodItems[j].service
                /\ path[6] = MethodItems[j].method.name

\* C9: in a call of a generated function one POST is issued; the body is
\* parsed only after the status was checked and only on status 200; the
\* value is rebuilt only from a parsed body; a call answered with another
\* status ends thrown with the status text, nothing parsed or rebuilt.
C9_StatusCheckedBeforeParse ==
    rt.state # "idle" =>
        /\ out[1].content.bindings[rt.fn].httpVerb = "POST"
        /\ rt.posts <= 1
        /\ rt.parsed => (rt.posts = 1 /\ rt.checked /\ rt.status = StatusOK)
        /\ rt.built => rt.parsed
        /\ rt.state = "returned" => (rt.status = StatusOK /\ rt.parsed /\ rt.built)
        /\ rt.state = "thrown" =>
              (rt.status # StatusOK /\ rt.error = "statusText" /\ ~rt.parsed)

\* C10: the name of the written file is the designated file name with its
\* trailing ".proto" replaced by the target extension, the rest unchanged.
C10_OnlyTrailingExtension ==
    out # <<>> =>
        out[1].name
            = SubSeq(req.fileToGenerate, 1, Len(req.fileToGenerate) - Len(Proto))
              \o targetExt(variant)

\* every message of the request: the messages of every file and, recursively,
\* the messages nested in them
RECURSIVE WithNested(_)
WithNested(m) == {m} \cup UNION { WithNested(m.nested[i]) : i \in 1..Len(m.nested) }

AllMessages(r) ==
    UNION { UNION { WithNested(r.protoFile[i].messageType[j])
                    : j \in 1..Len(r.protoFile[i].messageType) }
            : i \in 1..Len(r.protoFile) }

\* the text c declares a type named n
Declares(c, n) == c # <<>> /\ Len(c[1]) >= 2 /\ c[1][2] = n

\* the field names a declaration lists, in text order: its "name: type" lines
DeclaredNames(c) ==
    LET rows == SelectSeq([j \in 1..Len(c) |-> j],
                          LAMBDA j : Len(c[j]) >= 2 /\ c[j][2] = ":")
    IN  [i \in 1..Len(rows) |-> c[rows[i]][1]]

\* C11: the written artifact holds, for every message of the request, a type
\* declaration whose field names are the message's field names, each once,
\* in declaration order.
C11_DeclarationPerMessage ==
    out # <<>> =>
        \A m \in AllMessages(req) :
            \E j \in 1..Len(out[1].content.classes) :
                /\ Declares(out[1].content.classes[j], m.name)
                /\ DeclaredNames(out[1].content.classes[j])
                     = [i \in 1..Len(m.field) |-> m.field[i].name]


\* the brackets of one token of emitted text, in the order they are written
Brackets(tok) ==
    CASE tok = "{" -> <<"{">>
      [] tok = "}" -> <<"}">>
      [] tok = "{}" -> <<"{", "}">>
      [] tok = "Object.entries(" -> <<"(">>
      [] tok = ")" -> <<")">>
      [] tok = ".reduce((a, [k, v]) => {" -> <<"(", "(", "[", "]", ")", "{">>
      [] tok = "a[k] =" -> <<"[", "]">>
      [] tok = ", {})" -> <<"{", "}", ")">>
      [] tok = ".map(v => {" -> <<"(", "{">>
      [] tok = "})" -> <<"}", ")">>
      [] tok = ": []" -> <<"[", "]">>
      [] OTHER -> <<>>

\* every bracket of a text, in text order
BracketsOf(text) ==
    Flatten([j \in 1..Len(text) |->
               Flatten([p \in 1..Len(text[j]) |-> Brackets(text[j][p])])])

Closer(b) == CASE b = "{" -> "}" [] b = "(" -> ")" [] OTHER -> "]"

RECURSIVE Matched(_, _)
\* bs closes every bracket of the stack and its own, innermost first
Matched(bs, stack) ==
    IF bs = <<>> THEN stack = <<>>
    ELSE IF Head(bs) \in {"{", "(", "["}
         THEN Matched(Tail(bs), <<Head(bs)>> \o stack)
         ELSE /\ stack # <<>>
              /\ Closer(Head(stack)) = Head(bs)
              /\ Matched(Tail(bs), Tail(stack))

\* the number of field fragments that enclose line j
Enclosing(text, j) ==
    Cardinality({ i \in 1..(j - 1) :
                    FieldStart(text, i) /\ FragmentEnd(text, i) >= j })

\* for every field of a text, in text order, the number of containers
\* (fragments of repeated, message or map fields) it is emitted in
TextNesting(text) ==
    LET starts == SelectSeq([j \in 1..Len(text) |-> j],
                            LAMBDA j : FieldStart(text, j))
    IN  [i \in 1..Len(starts) |-> Enclosing(text, starts[i])]

\* the type whose fields are the content of field f: the element type of a
\* repeated field, the type of a message field, the value type of a map
ContentType(v, idx, f) ==
    CASE genFieldBranch(v, f) \in {"repeated", "message"} -> f.typeName
      [] genFieldBranch(v, f) = "map" -> idx[f.typeName].field[2].typeName
      [] OTHER -> <<>>

RECURSIVE SchemaNesting(_, _, _, _)
\* for every field reachable from the field list ff, depth first in
\* declaration order, the number n of repeated, message or map fields it is
\* nested in (a schema nested deeper than MaxStack has no finite answer)
SchemaNesting(v, idx, ff, n) ==
    IF n >= MaxStack THEN <<>>
    ELSE Flatten([i \in 1..Len(ff) |->
                    <<n>> \o SchemaNesting(v, idx,
                                           GetField(idx, ContentType(v, idx, ff[i])),
                                           n + 1)])

\* C12: the text genField returns has balanced braces, brackets and
\* parentheses, closed in the reverse order of opening, and every field
\* nested in N repeated, message or map fields is emitted inside N containers.
C12_BalancedToDepth ==
    (call.fn = "genField" /\ call.fault = "none") =>
        /\ Matched(BracketsOf(call.text), <<>>)
        /\ TextNesting(call.text) = SchemaNesting(variant, messages, call.ff, 0)

\* part_000's genField has returned a text with fields at one, two and three
\* levels of nesting, through a message, a repeated field and a map
C12_Witness ==
    /\ call.fn = "genField" /\ call.fault = "none" /\ variant = "p000"
    /\ {1, 2, 3} \subseteq { TextNesting(call.text)[i]
                              : i \in 1..Len(TextNesting(call.text)) }
    /\ \E i \in 1..Len(call.ff) : genFieldBranch(variant, call.ff[i]) = "message"
    /\ \E j \in 1..Len(call.text) :
          \E p \in 1..Len(call.text[j]) : call.text[j][p] = "Object.entries("
    /\ \E j \in 1..Len(call.text) :
          \E p \in 1..Len(call.text[j]) : call.text[j][p] = ".map(v => {"


(***************************************************************************)
(* Two runs of the plugin on one request.  Every run is a new process: the *)
(* package-level variables start from their initialisers, and nothing of   *)
(* the first run but its output is kept for the comparison.                *)
(***************************************************************************)
\* the package-level variables of the run that has just ended, kept
ProcessResumed == [messages |-> messages, classes |-> classes, Methods |-> Methods]

\* var messages = map[string]*descriptor.DescriptorProto{}, var classes =
\* []string{...}, var Methods []Method: the variables of a new process
ProcessStart == [messages |-> <<>>, classes |-> InitialClasses, Methods |-> <<>>]

\* protoc starts the plugin again on the same CodeGeneratorRequest
Rerun ==
    /\ pc = "written"
    /\ Len(out) = 1
    /\ pc' = "run"
    /\ pos' = 1
    /\ messages' = ProcessStart.messages
    /\ classes' = ProcessStart.classes
    /\ Methods' = ProcessStart.Methods
    /\ logged' = <<>>
    /\ UNCHANGED <<variant, req, out, rt, call>>

NextTwice == RegisterMessage \/ BindMethod \/ WriteArtifact \/ Rerun

SpecTwice == Init /\ [][NextTwice]_vars

FullIndex == BuildIndex(<<>>, req.protoFile)

\* C14: once a lookup has been made the index holds every message and nested
\* message of every file, and what a lookup returned is what the complete
\* index returns: the names recorded for a bound method are those of its
\* types, and a run ends on a nil descriptor only for a type no file declares.
C14_IndexCompleteAtLookup ==
    /\ (Methods # <<>> \/ pc = "nil") => messages = FullIndex
    /\ \A j \in 1..Len(Methods) :
          LET mt == MethodItems[j].method
          IN  /\ variant \in {"main", "p000"} =>
                    /\ Methods[j].OutputType = GetName(FullIndex, mt.outputType)
                    /\ Methods[j].InputType = GetName(FullIndex, mt.inputType)
              /\ variant \in {"p001", "p002"} =>
                    Methods[j].OutputName = GetName(FullIndex, mt.outputType)
    /\ pc = "nil" => IsNil(FullIndex, Work(req)[pos].method.outputType)


\* C15: on a request whose type references all resolve, no run ends on an
\* index out of range: every field treated as a map finds a first nested
\* type in its owning message and a second field in its entry message.
C15_NoReadPastEnd == AllResolve(req) => pc # "panic"


\* the variable a container's content is read from: the field's own path in
\* a message, the loop variable in a repeated element or a map value
RECURSIVE ExpectedIds(_, _, _, _, _)
\* for every field reachable from ff that is read from the response, depth
\* first in declaration order: its name and its access path under prefix
ExpectedIds(v, idx, ff, prefix, n) ==
    IF n >= MaxStack THEN <<>>
    ELSE Flatten([i \in 1..Len(ff) |->
           LET f    == ff[i]
               b    == genFieldBranch(v, f)
               here == Append(prefix, f.name)
               into == GetField(idx, ContentType(v, idx, f))
           IN  (IF b = "message" THEN <<>>
                ELSE << [name |-> f.name, path |-> here] >>)
               \o ExpectedIds(v, idx, into,
                              IF b = "message" THEN here ELSE <<"v">>, n + 1)])

\* the access paths written in a text, in text order: the source of every
\* field that is not an object literal
TextPaths(text) ==
    LET rows == SelectSeq([j \in 1..Len(text) |-> j],
                          LAMBDA j : FieldStart(text, j) /\ text[j][3] # "{")
    IN  [i \in 1..Len(rows) |->
           IF text[rows[i]][3] = "Object.entries(" THEN text[rows[i]][4]
           ELSE text[rows[i]][3]]

\* C16: every access path genField joins is the path the call was entered
\* with, followed by the names of the enclosing message fields and the
\* field's own name, and starts again from "v" inside a repeated element or
\* a map value; it is the path written in the text.
C16_AccessPaths ==
    (call.fn = "genField" /\ call.fault = "none") =>
        /\ call.ids = ExpectedIds(variant, messages, call.ff, call.id, 0)
        /\ TextPaths(call.text)
             = [i \in 1..Len(call.ids) |-> Join(call.ids[i].path, ".")]

\* genField has returned after joining the paths of two sibling fields at the
\* fourth and fifth position of a path, and paths that start from "v"
C16_Witness ==
    /\ call.fn = "genField" /\ call.fault = "none"
    /\ call.id = <<"data">>
    /\ \E i, j \in 1..Len(call.ids) :
          /\ i < j
          /\ Len(call.ids[i].path) = 5
          /\ Len(call.ids[j].path) = 4
          /\ SubSeq(call.ids[i].path, 1, 3) = SubSeq(call.ids[j].path, 1, 3)
          /\ call.ids[i].path[4] # call.ids[j].path[4]
    /\ \E i \in 1..Len(call.ids) : call.ids[i].path[1] = "v"


\* f is a map field whose entry message gives its value a scalar type
ScalarValued(f) ==
    /\ isMap(f.typeName)
    /\ f.typeName \in DOMAIN FullIndex
    /\ Len(FullIndex[f.typeName].field) >= 2
    /\ ~isMessage(FullIndex[f.typeName].field[2].type)

\* the lines at which the fields of a call start, in text order
TopStarts(text) ==
    SelectSeq([j \in 1..Len(text) |-> j],
              LAMBDA j : FieldStart(text, j) /\ DepthAfter(text, j - 1) = 0)

\* the fragment that starts at line j uses the entry's value v in what it
\* assigns to a[k]
UsesValue(text, j) ==
    \E l \in (j + 1)..FragmentEnd(text, j) :
        \E p \in 1..Len(text[l]) : text[l][p] = "v"

\* the TypeScript names of the scalar types
ScalarTypeNames == {"number", "boolean", "string"}

\* C17: for a map field with a scalar value type, what is assigned to each
\* key is derived from the entry's value v: the expression genField emits
\* uses v, and the statement main.go emits constructs no scalar type name.
C17_ScalarMapValueCarried ==
    /\ variant = "main" =>
          \A j \in 1..Len(Emitted) :
              LET m == Emitted[j].message
              IN  \A i \in 1..Len(m.field) :
                      ScalarValued(m.field[i]) =>
                          LET st == Statement(ClassOf(j), m, i)
                          IN  \A p \in 1..(Len(st) - 1) :
                                  st[p] = "new" => st[p + 1] \notin ScalarTypeNames
    /\ variant # "main" =>
          \A j \in 1..Len(Methods) :
              LET ff   == GetField(messages, MethodItems[j].method.outputType)
                  text == SubSeq(Methods[j].Field, 2, Len(Methods[j].Field) - 1)
              IN  \A i \in 1..Len(ff) :
                      (genFieldBranch(variant, ff[i]) = "map" /\ ScalarValued(ff[i]))
                          => UsesValue(text, TopStarts(text)[i])


====
